---- MODULE Spec2Model ----
(***************************************************************************)
(* JyotishTherapist backend v4.0.8 (src/functions/astrology.js:386-522).   *)
(*                                                                         *)
(* One Node.js process serves several handler invocations.  Each           *)
(* invocation runs synchronously between two I/O events; an action of this *)
(* module is one such run: the code from one resumed `await` on I/O        *)
(* (fetch, response.json(), res.text()) up to the next one or the return.  *)
(* The module-level cachedToken is shared by all invocations.  Two         *)
(* invocations are followed, started at any two moments (Spec); one        *)
(* invocation alone is followed over a wider range of requests and         *)
(* environments (SpecOne).                                                 *)
(***************************************************************************)
EXTENDS Integers, Sequences, FiniteSets, TLC

\* ---------------------------------------------------------------- bounds
MaxTicks == 1          \* advances of the clock in one behaviour

\* ------------------------------------------------------------ parameters
Reqs == {1, 2}                       \* the handler invocations, in any overlap
TickMs == 300 * 1000                 \* granularity of the modelled clock
Margin_200 == 200 * 1000
Margin == 300 * 1000                 \* astrology.js:411  300 * 1000
Null == 0                            \* astrology.js:398  accessToken: null
Lifetimes == {300, 600}              \* expires_in values of the provider
Endpoints == 1..3                    \* declaration order, astrology.js:478-482
EndpointName == <<"Kundli", "Dasha", "Planet Position">>
Details == {"d1"}                    \* upstream errors[0].detail texts
TokenErrors == {"invalid_client", "unauthorized_client"}  \* error bodies of TOKEN_URL
Envs == { [id |-> "id", secret |-> "s1"],
          [id |-> "",   secret |-> "s1"],
          [id |-> "id", secret |-> ""] }
EnvsOne == Envs \cup { [id |-> "id", secret |-> "s2"] }

\* --------------------------------------------------------- query strings
\* event.rawQuery, as received and not decoded: the sequence of its
\* `key=value` parameters, a value being the sequence of its pieces.  The
\* empty sequence is the absent or empty query string.
Param(k, v) == [key |-> k, value |-> v]
\* datetime values: the offset separator arrives percent-encoded (%2B), or as
\* a raw "+" or "%20", which both stand for a space.
DateTimes == { <<"2024-01-01T10:30:00", sep, "05:30">> : sep \in {"%2B", "+", "%20"} }
Coordinates == <<"10.21,78.09">>
Ayanamsa == <<"1">>
GoodQuery ==
    << Param("datetime", <<"2024-01-01T10:30:00", "%2B", "05:30">>),
       Param("coordinates", Coordinates),
       Param("ayanamsa", Ayanamsa) >>
Queries == { <<>>, GoodQuery }
RawQueries ==
    { <<>> }
    \cup { << Param("datetime", d), Param("coordinates", Coordinates),
              Param("ayanamsa", Ayanamsa) >> : d \in DateTimes }
    \cup { << Param("datetime", d), Param("coordinates", Coordinates) >> :
              d \in DateTimes }
    \cup { << Param("coordinates", Coordinates), Param("ayanamsa", Ayanamsa) >>,
           << Param("coordinates", Coordinates), Param("la", <<"en">>),
              Param("datetime", <<"2024-01-01T10:30:00", "%2B", "05:30">>),
              Param("ayanamsa", Ayanamsa) >> }

VARIABLES
    now,          \* Date.now(), in ms
    env,          \* process.env PROKERALA_CLIENT_ID / _SECRET
    cachedToken,  \* module-level cache: [accessToken, expiresAt]
    issued,       \* tokens the provider has issued (token n is the n-th)
    exchanges,    \* POSTs sent to TOKEN_URL by the process
    pc,           \* per invocation: where the handler is suspended
    queryString,  \* per invocation: const queryString
    missed,       \* per invocation awaiting its exchange: why line 411 did not serve it
    tokenCalls,   \* per invocation: POSTs to TOKEN_URL it has sent
    tokenResp,    \* per invocation: response of its token exchange
    accessToken,  \* per invocation: const accessToken (line 465)
    fetchState,   \* per invocation, per endpoint: state of the fetch promise
    bearer,       \* per invocation, per endpoint: token in the GET's header
    url,          \* per invocation, per endpoint: query string of the GET's URL
    payload,      \* per invocation, per endpoint: parsed body (line 496)
    res,          \* per invocation: status and text of the failed response read (line 487)
    idx,          \* per invocation: endpoint whose body is being read
    result        \* per invocation: the response returned

vars == <<now, env, cachedToken, issued, exchanges, pc,
          queryString, missed, tokenCalls, tokenResp,
          accessToken, fetchState, bearer, url, payload, res, idx, result>>

Absent == "absent"                   \* an undefined / missing JSON key
NoResult == [statusCode |-> 0]
NoRes == [status |-> 0, text |-> ""]  \* no failed response read
NoUrl == << Param("", <<>>) >>        \* no GET issued
NoResp == [settled |-> FALSE, ok |-> FALSE, access_token |-> Null, expires_in |-> 0,
           error |-> ""]

\* ------------------------------------------------------------ JSON values
\* A parsed JSON value of the provider: null, or an object with the optional
\* keys `data` and `errors` (errors[0].detail is kept as `errors`).
NoData == [foo |-> Absent, ascendant |-> Absent, planet_positions |-> Absent,
           planets |-> Absent]
Obj(hasData, data, errors) ==
    [isNull |-> FALSE, hasData |-> hasData, data |-> data, errors |-> errors]
JsonNull == [isNull |-> TRUE, hasData |-> FALSE, data |-> NoData, errors |-> Absent]
NoPayload == JsonNull

\* A response body: its raw text and, when the text is JSON, its value.
Body(parses, text, value) == [parses |-> parses, text |-> text, value |-> value]

\* Bodies a resource endpoint sends with a success status.
OkBodies(e) ==
    IF e = 1 THEN
        { Body(TRUE, "k1", Obj(TRUE, [NoData EXCEPT !.foo = "k"], Absent)),
          Body(TRUE, "k2", Obj(TRUE, [NoData EXCEPT !.foo = "k",
                                                     !.ascendant = "Aries",
                                                     !.planet_positions = "Q"], Absent)),
          Body(TRUE, "k0", Obj(FALSE, NoData, Absent)),
          Body(FALSE, "html", JsonNull) }
    ELSE IF e = 2 THEN
        { Body(TRUE, "d1", Obj(TRUE, [NoData EXCEPT !.foo = "d"], Absent)) }
    ELSE
        { Body(TRUE, "p1", Obj(TRUE, [NoData EXCEPT !.ascendant = "Leo",
                                                     !.planets = "P"], Absent)),
          Body(TRUE, "p0", Obj(FALSE, NoData, Absent)) }

\* Bodies a resource endpoint sends with a failure status.
ErrBodies ==
    { Body(FALSE, "raw", JsonNull) }
    \cup { Body(TRUE, d, Obj(FALSE, NoData, d)) : d \in Details }
    \cup { Body(TRUE, "{}", Obj(FALSE, NoData, Absent)) }
    \cup { Body(TRUE, "null", JsonNull) }

\* Every body, and the bodies followed when two invocations overlap.
BodiesOne == ErrBodies \cup UNION { OkBodies(e) : e \in Endpoints }
Bodies == { b \in BodiesOne : b.text \notin {"k2", "k0"} }

ErrStatuses == {400, 401, 500}       \* res.status of a failed resource call
\* The statuses followed when two invocations overlap.
Statuses == {200, 401, 500}

\* ------------------------------------------------------- error messages
\* An Error's message: `of` is the call the error comes from ("" when it is
\* none of the upstream calls), `names` the endpoint name the text contains.
ConfigMsg == [kind |-> "config", of |-> "", names |-> "", text |-> ""]
MissingQueryMsg == [kind |-> "missingQuery", of |-> "", names |-> "", text |-> ""]
\* Line 433: 'Could not authenticate with ProKerala. Check API credentials.'
AuthMsg_WithSecret == [kind |-> "auth", of |-> "token", names |-> "", text |-> env.secret]
AuthMsg == [kind |-> "auth", of |-> "token", names |-> "", text |-> ""]
TransportMsg(o) == [kind |-> "transport", of |-> o, names |-> "", text |-> ""]
SyntaxMsg(o) == [kind |-> "syntax", of |-> o, names |-> "", text |-> ""]
TypeMsg(o) == [kind |-> "type", of |-> o, names |-> "", text |-> ""]
\* `${name} API request failed with status ${res.status}: ${errorText}`
StatusMsg_NoText(name, status, errorText) ==
    [kind |-> "status", of |-> name, names |-> name, text |-> "",
     status |-> status]
StatusMsg(name, status, errorText) ==
    [kind |-> "status", of |-> name, names |-> name, text |-> errorText,
     status |-> status]
\* errorJson.errors?.[0]?.detail
DetailMsg(name, detail) == [kind |-> "detail", of |-> name, names |-> "", text |-> detail]
\* `Unknown ${name} API error.`
UnknownMsg(name) == [kind |-> "unknown", of |-> name, names |-> name, text |-> ""]

\* Lines 450-453, 459-462, 516-519: a response with an error body.
ErrorResponse_BadGateway(code, msg) ==
    [statusCode |-> IF code = 500 THEN 502 ELSE code, body |-> [error |-> msg]]
ErrorResponse(code, msg) == [statusCode |-> code, body |-> [error |-> msg]]

\* ---------------------------------------------------------------- Init
Init ==
    /\ now = 0
    /\ env \in Envs
    /\ cachedToken = [accessToken |-> Null, expiresAt |-> 0]
    /\ issued = 0
    /\ exchanges = 0
    /\ pc = [p \in Reqs |-> "idle"]
    /\ queryString = [p \in Reqs |-> <<>>]
    /\ missed = [p \in Reqs |-> "none"]
    /\ tokenCalls = [p \in Reqs |-> 0]
    /\ tokenResp = [p \in Reqs |-> NoResp]
    /\ accessToken = [p \in Reqs |-> Null]
    /\ fetchState = [p \in Reqs |-> [e \in Endpoints |-> "none"]]
    /\ bearer = [p \in Reqs |-> [e \in Endpoints |-> Null]]
    /\ url = [p \in Reqs |-> [e \in Endpoints |-> NoUrl]]
    /\ payload = [p \in Reqs |-> [e \in Endpoints |-> NoPayload]]
    /\ res = [p \in Reqs |-> NoRes]
    /\ idx = [p \in Reqs |-> 0]
    /\ result = [p \in Reqs |-> NoResult]

\* The clock advances between any two I/O events.
Tick ==
    /\ now < MaxTicks * TickMs
    /\ now' = now + TickMs
    /\ UNCHANGED <<env, cachedToken, issued, exchanges, pc, queryString,
                   missed, tokenCalls, tokenResp, accessToken, fetchState,
                   bearer, url, payload, res, idx, result>>

\* ------------------------------------------------------- getAccessToken
\* Line 411: the cached token is served when it is set and expires more than
\* the margin after t.
CacheValid_NoMargin(c, t) == c.accessToken # Null /\ c.expiresAt > t
CacheValid_Inclusive(c, t) == c.accessToken # Null /\ c.expiresAt >= t + Margin
CacheValid_Never(c, t) == FALSE
CacheValid(c, t) == c.accessToken # Null /\ c.expiresAt > t + Margin

\* Why a call made at t is not served from the cache entry c.
CacheMiss(c, t) ==
    IF c.accessToken = Null THEN "empty"
    ELSE IF c.expiresAt = t + Margin THEN "edge"
    ELSE "stale"

\* Lines 436-437: the cache entry written for the exchange response `data`
\* stored at time t, over the previous entry c.
StoredToken_Seconds(c, data, t) ==
    [accessToken |-> data.access_token, expiresAt |-> t + data.expires_in]
StoredToken_FirstWins(c, data, t) ==
    IF c.accessToken # Null THEN c
    ELSE [accessToken |-> data.access_token, expiresAt |-> t + data.expires_in * 1000]
StoredToken_KeepsExpiry(c, data, t) ==
    IF c.accessToken # Null
    THEN [accessToken |-> data.access_token, expiresAt |-> c.expiresAt]
    ELSE [accessToken |-> data.access_token, expiresAt |-> t + data.expires_in * 1000]
StoredToken(c, data, t) ==
    [accessToken |-> data.access_token, expiresAt |-> t + data.expires_in * 1000]

\* Lines 431-434: a response that is not ok leaves the cache entry c as it is.
FailedExchange_Clears(c) == [accessToken |-> Null, expiresAt |-> 0]
FailedExchange_Expires(c) == [c EXCEPT !.expiresAt = 0]
FailedExchange(c) == c

\* Lines 472-474: the query string of the URL of endpoint e, for the inbound
\* query string q.
UrlQuery(q, e) == q

\* Lines 466-482: the three GETs, all issued before the handler awaits.
IssueFanOut_CacheBearer(p, token) ==
    /\ accessToken' = [accessToken EXCEPT ![p] = token]
    /\ fetchState' = [fetchState EXCEPT ![p] = [e \in Endpoints |-> "pending"]]
    /\ bearer' = [bearer EXCEPT ![p] = [e \in Endpoints |-> cachedToken.accessToken]]
    /\ url' = [url EXCEPT ![p] = [e \in Endpoints |-> UrlQuery(queryString'[p], e)]]
    /\ pc' = [pc EXCEPT ![p] = "fanout"]
IssueFanOut(p, token) ==
    /\ accessToken' = [accessToken EXCEPT ![p] = token]
    /\ fetchState' = [fetchState EXCEPT ![p] = [e \in Endpoints |-> "pending"]]
    /\ bearer' = [bearer EXCEPT ![p] = [e \in Endpoints |-> token]]
    /\ url' = [url EXCEPT ![p] = [e \in Endpoints |-> UrlQuery(queryString'[p], e)]]
    /\ pc' = [pc EXCEPT ![p] = "fanout"]

\* Lines 515-520 (and the early returns): the invocation returns r.  Its
\* locals go with its frame; the GETs it sent, their responses and the
\* payloads read from them are kept as sent and received.
Return(p, r) ==
    /\ pc' = [pc EXCEPT ![p] = "done"]
    /\ result' = [result EXCEPT ![p] = r]
    /\ tokenResp' = [tokenResp EXCEPT ![p] = NoResp]
    /\ accessToken' = [accessToken EXCEPT ![p] = Null]
    /\ bearer' = [bearer EXCEPT ![p] = [e \in Endpoints |-> Null]]
    /\ idx' = [idx EXCEPT ![p] = 0]
    /\ tokenCalls' = [tokenCalls EXCEPT ![p] = 0]
    /\ missed' = [missed EXCEPT ![p] = "none"]

\* Line 449: a credential that is unset or empty.
CredentialsMissing_IdOnly(e) == e.id = ""
CredentialsMissing(e) == e.id = "" \/ e.secret = ""

\* Line 458: !queryString, the query string is absent or empty.
QueryMissing_Never(q) == FALSE
QueryMissing(q) == q = <<>>

\* Line 423: the POSTs to TOKEN_URL that one call of getAccessToken sends
\* when the cache does not serve it.
TokenPosts_Retry == 1 + 1
TokenPosts == 1

\* Lines 443-465 and 410-427: a new invocation of the handler, run up to its
\* first wait on I/O.
Invoke(p, q) ==
    /\ pc[p] = "idle"
    /\ queryString' = [queryString EXCEPT ![p] = q]
    /\ UNCHANGED <<now, env, cachedToken, issued, payload, res>>
    /\ IF CredentialsMissing(env) THEN
            /\ Return(p, ErrorResponse(500, ConfigMsg))
            /\ UNCHANGED <<exchanges, fetchState, url>>
       ELSE IF QueryMissing(q) THEN
            /\ Return(p, ErrorResponse(400, MissingQueryMsg))
            /\ UNCHANGED <<exchanges, fetchState, url>>
       ELSE IF CacheValid(cachedToken, now) THEN
            /\ IssueFanOut(p, cachedToken.accessToken)
            /\ UNCHANGED <<exchanges, missed, tokenCalls, result, tokenResp, idx>>
       ELSE
            /\ missed' = [missed EXCEPT ![p] = CacheMiss(cachedToken, now)]
            /\ exchanges' = exchanges + TokenPosts
            /\ tokenCalls' = [tokenCalls EXCEPT ![p] = tokenCalls[p] + TokenPosts]
            /\ pc' = [pc EXCEPT ![p] = "tokenFetch"]
            /\ UNCHANGED <<accessToken, fetchState, bearer, url, result,
                           tokenResp, idx>>

\* Lines 431-434: the Error thrown for the exchange response `data` whose
\* status is not ok; data is logged, the message is fixed.
AuthError_WrapsBody(data) == [AuthMsg EXCEPT !.text = data.error]
AuthError(data) == AuthMsg

\* Line 423: the POST to TOKEN_URL settles: the fetch rejects (transport
\* error, caught at line 515) or resolves with the provider's response.  A
\* successful response carries the provider's next token (the n-th token is
\* the value n) and its lifetime in seconds, a refused one the provider's
\* error content.
TokenFetchSettle(p, r, life) ==
    /\ pc[p] = "tokenFetch"
    /\ UNCHANGED <<now, env, cachedToken, exchanges, queryString, fetchState,
                   url, payload, res>>
    /\ IF r = "reject" THEN
            /\ Return(p, ErrorResponse(500, TransportMsg("token")))
            /\ UNCHANGED issued
       ELSE
            /\ issued' = IF r = "ok" THEN issued + 1 ELSE issued
            /\ \E err \in TokenErrors :
                  tokenResp' = [tokenResp EXCEPT ![p] =
                                   IF r = "ok"
                                   THEN [settled |-> TRUE, ok |-> TRUE,
                                         access_token |-> issued + 1,
                                         expires_in |-> life, error |-> ""]
                                   ELSE [NoResp EXCEPT !.settled = TRUE,
                                                       !.error = err]]
            /\ pc' = [pc EXCEPT ![p] = "tokenJson"]
            /\ UNCHANGED <<result, missed, idx, tokenCalls, accessToken, bearer>>

\* Lines 429-440 and 466-482: response.json() settles.  A body that is not
\* JSON throws; a status that is not ok throws the authentication error; a
\* success is stored in the cache and the handler goes on to the fan-out.
TokenJsonSettle(p, parses) ==
    /\ pc[p] = "tokenJson"
    /\ UNCHANGED <<now, env, issued, exchanges, queryString, payload, res>>
    /\ IF ~parses THEN
            /\ Return(p, ErrorResponse(500, SyntaxMsg("token")))
            /\ UNCHANGED <<cachedToken, fetchState, url>>
       ELSE IF ~tokenResp[p].ok THEN
            /\ Return(p, ErrorResponse(500, AuthError(tokenResp[p])))
            /\ cachedToken' = FailedExchange(cachedToken)
            /\ UNCHANGED <<fetchState, url>>
       ELSE LET data == [access_token |-> tokenResp[p].access_token,
                         expires_in |-> tokenResp[p].expires_in] IN
            /\ cachedToken' = StoredToken(cachedToken, data, now)
            /\ IssueFanOut(p, data.access_token)
            /\ tokenResp' = [tokenResp EXCEPT ![p] = NoResp]
            /\ missed' = [missed EXCEPT ![p] = "none"]
            /\ UNCHANGED <<result, idx, tokenCalls>>

\* ------------------------------------------------------------- fan-out
\* Lines 478-482: Promise.all resolves once every fetch has resolved with a
\* response, whatever its status.
JoinReady_Never(fs) == FALSE
JoinReady_Any(fs) == \E e \in Endpoints : fs[e] \in {"ok", "err"}
JoinReady(fs) == \A e \in Endpoints : fs[e] \in {"ok", "err"}

\* Lines 499-501: the order in which the responses are processed.
ProcessOrder_Reversed == <<3, 2, 1>>
ProcessOrder == <<1, 2, 3>>

\* Lines 485-497: processResponse(res, name) once the body has been read.
\* The result is the parsed payload, or the Error thrown.
ProcessResponse_NoThrow(ok, status, body, name) ==
    IF ~body.parses THEN
        [threw |-> TRUE, msg |-> SyntaxMsg(name), value |-> JsonNull]
    ELSE
        [threw |-> FALSE, msg |-> ConfigMsg, value |-> body.value]
ProcessResponse_OneName(ok, status, body, name) ==
    IF ~ok THEN
        IF ~body.parses THEN
            [threw |-> TRUE, msg |-> StatusMsg("Kundli", status, body.text),
             value |-> JsonNull]
        ELSE IF body.value.isNull THEN
            [threw |-> TRUE, msg |-> TypeMsg(name), value |-> JsonNull]
        ELSE IF body.value.errors # Absent THEN
            [threw |-> TRUE, msg |-> DetailMsg(name, body.value.errors),
             value |-> JsonNull]
        ELSE
            [threw |-> TRUE, msg |-> UnknownMsg("Kundli"), value |-> JsonNull]
    ELSE IF ~body.parses THEN
        [threw |-> TRUE, msg |-> SyntaxMsg(name), value |-> JsonNull]
    ELSE
        [threw |-> FALSE, msg |-> ConfigMsg, value |-> body.value]
ProcessResponse(ok, status, body, name) ==
    IF ~ok THEN
        IF ~body.parses THEN
            [threw |-> TRUE, msg |-> StatusMsg(name, status, body.text),
             value |-> JsonNull]
        ELSE IF body.value.isNull THEN
            [threw |-> TRUE, msg |-> TypeMsg(name), value |-> JsonNull]
        ELSE IF body.value.errors # Absent THEN
            [threw |-> TRUE, msg |-> DetailMsg(name, body.value.errors),
             value |-> JsonNull]
        ELSE
            [threw |-> TRUE, msg |-> UnknownMsg(name), value |-> JsonNull]
    ELSE IF ~body.parses THEN
        [threw |-> TRUE, msg |-> SyntaxMsg(name), value |-> JsonNull]
    ELSE
        [threw |-> FALSE, msg |-> ConfigMsg, value |-> body.value]

\* Lines 503-513: the planet positions are grafted into kundliData.data and
\* the pair is serialized.
Merge_NoRename(kundliData, dashaData, planetPositionData) ==
    IF planetPositionData.isNull THEN
        [threw |-> TRUE, msg |-> TypeMsg(""), value |-> NoResult]
    ELSE IF ~planetPositionData.hasData THEN
        [threw |-> FALSE, msg |-> ConfigMsg,
         value |-> [statusCode |-> 200,
                    body |-> [kundliData |-> kundliData, dashaData |-> dashaData]]]
    ELSE IF kundliData.isNull \/ ~kundliData.hasData THEN
        [threw |-> TRUE, msg |-> TypeMsg(""), value |-> NoResult]
    ELSE
        [threw |-> FALSE, msg |-> ConfigMsg,
         value |-> [statusCode |-> 200,
                    body |-> [kundliData |->
                                 [kundliData EXCEPT
                                    !.data.ascendant = planetPositionData.data.ascendant,
                                    !.data.planets = planetPositionData.data.planets],
                              dashaData |-> dashaData]]]
Merge(kundliData, dashaData, planetPositionData) ==
    IF planetPositionData.isNull THEN
        [threw |-> TRUE, msg |-> TypeMsg(""), value |-> NoResult]
    ELSE IF ~planetPositionData.hasData THEN
        [threw |-> FALSE, msg |-> ConfigMsg,
         value |-> [statusCode |-> 200,
                    body |-> [kundliData |-> kundliData, dashaData |-> dashaData]]]
    ELSE IF kundliData.isNull \/ ~kundliData.hasData THEN
        [threw |-> TRUE, msg |-> TypeMsg(""), value |-> NoResult]
    ELSE
        [threw |-> FALSE, msg |-> ConfigMsg,
         value |-> [statusCode |-> 200,
                    body |-> [kundliData |->
                                 [kundliData EXCEPT
                                    !.data.ascendant = planetPositionData.data.ascendant,
                                    !.data.planet_positions = planetPositionData.data.planets],
                              dashaData |-> dashaData]]]

\* Lines 478-482 and 499: one of the GETs of a waiting handler settles.  A
\* rejection rejects Promise.all at once and the handler returns from its
\* catch; the last of three resolutions lets the handler start reading the
\* first body.  (A GET left pending by a handler that has returned settles
\* without any effect on the program and is not followed further.)
FetchSettle(p, e, r) ==
    /\ pc[p] = "fanout"
    /\ fetchState[p][e] = "pending"
    /\ fetchState' = [fetchState EXCEPT ![p][e] = r]
    /\ UNCHANGED <<now, env, cachedToken, issued, exchanges, queryString,
                   url, payload, res>>
    /\ IF r = "rejected" THEN
            Return(p, ErrorResponse(500, TransportMsg(EndpointName[e])))
       ELSE IF JoinReady(fetchState'[p]) THEN
            /\ pc' = [pc EXCEPT ![p] = "process"]
            /\ idx' = [idx EXCEPT ![p] = 1]
            /\ UNCHANGED <<result, tokenResp, missed, tokenCalls,
                           accessToken, bearer>>
       ELSE
            UNCHANGED <<pc, result, idx, tokenResp, missed, tokenCalls,
                        accessToken, bearer>>

\* Lines 499-513: the body of the idx[p]-th response to be processed has
\* been read (res.text() of a failed response, res.json() of a successful
\* one); after the third one the handler merges and returns.
ProcessSettle(p, status, body) ==
    /\ pc[p] = "process"
    /\ UNCHANGED <<now, env, cachedToken, issued, exchanges, queryString,
                   fetchState, url>>
    /\ LET e == ProcessOrder[idx[p]]
           ok == fetchState[p][e] = "ok"
           r == ProcessResponse(ok, status, body, EndpointName[e])
           got == [payload[p] EXCEPT ![e] = r.value]
       IN
       /\ IF ok THEN status = 200 /\ body \in OkBodies(e)
                ELSE status \in ErrStatuses /\ body \in ErrBodies
       /\ payload' = [payload EXCEPT ![p] = got]
       /\ res' = IF ok THEN res
                 ELSE [res EXCEPT ![p] = [status |-> status, text |-> body.text]]
       /\ IF r.threw THEN
               Return(p, ErrorResponse(500, r.msg))
          ELSE IF idx[p] < 3 THEN
               /\ idx' = [idx EXCEPT ![p] = idx[p] + 1]
               /\ UNCHANGED <<pc, result, tokenResp, missed, tokenCalls,
                              accessToken, bearer>>
          ELSE LET m == Merge(got[1], got[2], got[3]) IN
               IF m.threw THEN Return(p, ErrorResponse(500, m.msg))
                          ELSE Return(p, m.value)

Next ==
    \/ Tick
    \/ \E p \in Reqs, q \in Queries : Invoke(p, q)
    \/ \E p \in Reqs, r \in {"ok", "fail", "reject"}, life \in Lifetimes :
            TokenFetchSettle(p, r, life)
    \/ \E p \in Reqs, parses \in BOOLEAN : TokenJsonSettle(p, parses)
    \/ \E p \in Reqs, e \in Endpoints, r \in {"ok", "err", "rejected"} :
            FetchSettle(p, e, r)
    \/ \E p \in Reqs, status \in Statuses, body \in Bodies :
            ProcessSettle(p, status, body)

Spec == Init /\ [][Next]_vars

\* One invocation, over every environment, inbound query string and payload;
\* the cache is empty or holds the token an earlier invocation stored.
InitOne ==
    /\ now = 0
    /\ env \in EnvsOne
    /\ \/ /\ cachedToken = [accessToken |-> Null, expiresAt |-> 0]
          /\ issued = 0
          /\ exchanges = 0
       \/ /\ env.id # "" /\ env.secret # ""
          /\ cachedToken = StoredToken([accessToken |-> Null, expiresAt |-> 0],
                                       [access_token |-> 1, expires_in |-> 600], 0)
          /\ issued = 1
          /\ exchanges = 1
    /\ pc = [p \in Reqs |-> "idle"]
    /\ queryString = [p \in Reqs |-> <<>>]
    /\ missed = [p \in Reqs |-> "none"]
    /\ tokenCalls = [p \in Reqs |-> 0]
    /\ tokenResp = [p \in Reqs |-> NoResp]
    /\ accessToken = [p \in Reqs |-> Null]
    /\ fetchState = [p \in Reqs |-> [e \in Endpoints |-> "none"]]
    /\ bearer = [p \in Reqs |-> [e \in Endpoints |-> Null]]
    /\ url = [p \in Reqs |-> [e \in Endpoints |-> NoUrl]]
    /\ payload = [p \in Reqs |-> [e \in Endpoints |-> NoPayload]]
    /\ res = [p \in Reqs |-> NoRes]
    /\ idx = [p \in Reqs |-> 0]
    /\ result = [p \in Reqs |-> NoResult]

NextOne ==
    \/ Tick
    \/ \E q \in RawQueries : Invoke(1, q)
    \/ \E r \in {"ok", "fail", "reject"}, life \in Lifetimes :
            TokenFetchSettle(1, r, life)
    \/ \E parses \in BOOLEAN : TokenJsonSettle(1, parses)
    \/ \E e \in Endpoints, r \in {"ok", "err", "rejected"} : FetchSettle(1, e, r)
    \/ \E status \in ErrStatuses \cup {200}, body \in BodiesOne :
            ProcessSettle(1, status, body)

SpecOne == InitOne /\ [][NextOne]_vars

\* The settlement of an upstream call invocation 1 awaits: the token exchange
\* (line 423) and its body (line 429), a resource call (lines 478-482), the
\* body of a resource response (lines 487, 496).
Settle ==
    \/ \E r \in {"ok", "fail", "reject"}, life \in Lifetimes :
            TokenFetchSettle(1, r, life)
    \/ \E parses \in BOOLEAN : TokenJsonSettle(1, parses)
    \/ \E e \in Endpoints, r \in {"ok", "err", "rejected"} : FetchSettle(1, e, r)
    \/ \E status \in ErrStatuses \cup {200}, body \in BodiesOne :
            ProcessSettle(1, status, body)

\* One invocation whose upstream calls all eventually settle: the event loop
\* runs the continuation of an await once its promise has settled.
FairSpecOne == SpecOne /\ WF_vars(Settle)

\* ================================================================ claims
CredsOk == env.id # "" /\ env.secret # ""

\* The step in which invocation p calls getAccessToken (line 465).
CallsGetAccessToken(p) ==
    /\ pc[p] = "idle"
    /\ pc'[p] # "idle"
    /\ CredsOk
    /\ queryString'[p] # <<>>

\* The step in which getAccessToken, called by p, returns from the cache.
ReturnsFromCache(p) == pc[p] = "idle" /\ pc'[p] = "fanout"

\* The step in which p's exchange response is stored (lines 436-440).
StoresToken(p) == pc[p] = "tokenJson" /\ pc'[p] = "fanout"

\* p holds a token that its own exchange returned.
Acquired(p) == tokenCalls[p] = 1 /\ accessToken[p] # Null

C3_SecondCallHits ==
    [][\A q \in Reqs :
        ( /\ CallsGetAccessToken(q)
          /\ exchanges = 1
          /\ cachedToken.accessToken # Null
          /\ cachedToken.expiresAt > now + 300 * 1000 )
        => ( /\ exchanges' = 1
             /\ cachedToken.accessToken = issued
             /\ accessToken'[q] = cachedToken.accessToken
             /\ \A p \in Reqs \ {q} : Acquired(p) => accessToken'[q] = accessToken[p] )
    ]_vars

\* The first invocation has exchanged and returned 200; the second call has
\* returned the token the first one stored, and one exchange has been sent in
\* all.
C3_Witness ==
    \E p, q \in Reqs :
        /\ p # q
        /\ pc[p] = "done"
        /\ result[p].statusCode = 200
        /\ pc[q] = "fanout"
        /\ tokenCalls[q] = 0
        /\ accessToken[q] = cachedToken.accessToken
        /\ exchanges = 1
        /\ issued = 1

\* C4: when a successful exchange response {access_token, expires_in} is
\* stored, the cache holds that access_token with expiresAt = now +
\* expires_in seconds, and getAccessToken returns that access_token.
C4_StoreOnSuccess ==
    [][\A p \in Reqs :
        StoresToken(p)
        => ( /\ tokenResp[p].ok
             /\ cachedToken'.accessToken = tokenResp[p].access_token
             /\ cachedToken'.expiresAt = now + tokenResp[p].expires_in * 1000
             /\ accessToken'[p] = tokenResp[p].access_token )
    ]_vars

\* A response with a 600 s lifetime has just been stored and returned.
C4_Witness ==
    \E p \in Reqs :
        /\ pc[p] = "fanout"
        /\ tokenCalls[p] = 1
        /\ accessToken[p] = cachedToken.accessToken
        /\ cachedToken.expiresAt = now + 600 * 1000
        /\ \A e \in Endpoints : fetchState[p][e] = "pending"

\* C5: when the exchange returns a status that is not a success, the call
\* fails (the handler returns 500, no token in hand) and the cache entry is
\* exactly what it was: nothing is cached, nothing cached before is erased.
C5_FailureNotCached ==
    [][\A p \in Reqs :
        /\ ( pc[p] = "tokenJson" /\ ~tokenResp[p].ok /\ pc'[p] # pc[p] )
           => ( /\ pc'[p] = "done"
                /\ result'[p].statusCode = 500
                /\ accessToken'[p] = Null
                /\ cachedToken' = cachedToken )
        /\ ( pc[p] = "tokenFetch" /\ pc'[p] # pc[p] )
           => cachedToken' = cachedToken
    ]_vars

\* An exchange has failed with the authentication error while the cache holds
\* the token another invocation stored.
C5_Witness ==
    \E p \in Reqs :
        /\ pc[p] = "done"
        /\ result[p] = ErrorResponse(500, AuthMsg)
        /\ cachedToken.accessToken # Null

\* C6: concurrent callers that find the cache empty or within the margin each
\* send their own exchange call; each returns the token of its own exchange
\* (a token the provider issued, different from the other caller's); every
\* store overwrites the entry with the storing exchange's own token and
\* expiry, and nothing but a store changes the entry, so that after all have
\* completed the cache holds the pair stored last.
C6_LastWriterWins ==
    [][/\ \A p \in Reqs :
            StoresToken(p)
            => ( /\ accessToken'[p] = tokenResp[p].access_token
                 /\ accessToken'[p] \in 1..issued
                 /\ \A q \in Reqs \ {p} : accessToken[q] # accessToken'[p]
                 /\ cachedToken'.accessToken = tokenResp[p].access_token
                 /\ cachedToken'.expiresAt = now + tokenResp[p].expires_in * 1000 )
       /\ cachedToken' # cachedToken => \E p \in Reqs : StoresToken(p)
    ]_vars

\* Both callers have exchanged concurrently and hold different tokens; the
\* cache holds the token that was issued first but stored last.
C6_Witness ==
    \E p, q \in Reqs :
        /\ Acquired(p) /\ Acquired(q)
        /\ exchanges = 2
        /\ accessToken[p] < accessToken[q]
        /\ cachedToken.accessToken = accessToken[p]

\* ------------------------------------------------------- fan-out claims
FanOutIssued(p) == \E e \in Endpoints : fetchState[p][e] # "none"
Settled(p) == \A e \in Endpoints : fetchState[p][e] \in {"ok", "err", "rejected"}
Resolved(p) == \A e \in Endpoints : fetchState[p][e] \in {"ok", "err"}
Failed(p) == { e \in Endpoints : fetchState[p][e] \in {"err", "rejected"} }
FirstFailed(p) == CHOOSE e \in Failed(p) : \A o \in Failed(p) : e <= o

OkValues(e) == { b.value : b \in { c \in OkBodies(e) : c.parses } }

\* C9: a response with statusCode 200 is produced only if all three calls
\* returned a success status; its body holds exactly kundliData and
\* dashaData, both taken from success payloads (kundliData from a Kundli
\* payload, dashaData a Dasha payload as received), never from an error body.
C9_NoPartialSuccess ==
    \A p \in Reqs :
        result[p].statusCode = 200
        => ( /\ \A e \in Endpoints : fetchState[p][e] = "ok"
             /\ DOMAIN result[p].body = {"kundliData", "dashaData"}
             /\ result[p].body.dashaData \in OkValues(2)
             /\ \E k \in OkValues(1) :
                    result[p].body.kundliData.data.foo = k.data.foo
             /\ result[p].body.kundliData.errors = Absent
             /\ result[p].body.dashaData.errors = Absent )

\* A 200 response has been returned after three successful calls.
C9_Witness ==
    \E p \in Reqs :
        /\ pc[p] = "done"
        /\ result[p].statusCode = 200
        /\ \A e \in Endpoints : fetchState[p][e] = "ok"

\* Exactly endpoint e returned an HTTP error and the handler's error is not
\* the parse error of another endpoint's success response.
OnlyFailure(p, e) ==
    /\ pc[p] = "done"
    /\ fetchState[p][e] = "err"
    /\ \A o \in Endpoints \ {e} : fetchState[p][o] = "ok"
    /\ result[p].statusCode = 500 => result[p].body.error.kind # "syntax"

AllSucceeded(p) == \A e \in Endpoints : fetchState[p][e] = "ok"

\* The kundli payload k with the ascendant and the planets of the
\* planet-position payload pp grafted into its data.
Grafted(k, pp) ==
    [k EXCEPT !.data.ascendant = pp.data.ascendant,
              !.data.planet_positions = pp.data.planets]

\* C11 (as stated): when all three calls succeed, the returned kundliData is
\* the kundli payload with data.ascendant set to the planet-position
\* payload's data.ascendant and data.planet_positions set to its data.planets
\* (existing keys overwritten, every other key unchanged), and the returned
\* dashaData is the dasha payload unmodified.
C11_MergeGrafts ==
    \A p \in Reqs :
        ( AllSucceeded(p) /\ result[p].statusCode = 200 )
        => ( /\ result[p].body.kundliData = Grafted(payload[p][1], payload[p][3])
             /\ result[p].body.dashaData = payload[p][2] )

\* C11 (amended): when all three calls succeed and a result is returned, the
\* returned kundliData is the kundli payload with those two keys grafted if
\* the planet-position payload has a data field, and the kundli payload
\* unchanged (its own ascendant and planet_positions kept) if it has none;
\* the returned dashaData is the dasha payload unmodified.
C11_MergeGraftsIfData ==
    \A p \in Reqs :
        ( AllSucceeded(p) /\ result[p].statusCode = 200 )
        => ( /\ result[p].body.kundliData =
                    IF payload[p][3].hasData
                    THEN Grafted(payload[p][1], payload[p][3])
                    ELSE payload[p][1]
             /\ result[p].body.dashaData = payload[p][2] )

\* A kundli payload that already had an ascendant and planet_positions was
\* merged with a planet-position payload with data: both keys are
\* overwritten, foo is kept.
C11_Witness ==
    \E p \in Reqs :
        /\ result[p].statusCode = 200
        /\ payload[p][1].data.ascendant = "Aries"
        /\ payload[p][1].data.planet_positions = "Q"
        /\ payload[p][3].hasData
        /\ result[p].body.kundliData.data =
               [foo |-> "k", ascendant |-> "Leo", planet_positions |-> "P",
                planets |-> Absent]
        /\ result[p].body.dashaData.data.foo = "d"

\* C12: whenever credentials are present, the query is non-empty, the token is
\* obtained and all three calls return a success status with a JSON payload,
\* the handler returns 200 with body {kundliData, dashaData}, whatever the
\* shape of the payloads (a kundli or a planet-position payload without a
\* data field included).
C12_SuccessForAllShapes ==
    \A p \in Reqs :
        ( /\ pc[p] = "done"
          /\ CredsOk
          /\ queryString[p] # <<>>
          /\ AllSucceeded(p)
          /\ result[p].statusCode = 500 => result[p].body.error.kind # "syntax" )
        => ( /\ result[p].statusCode = 200
             /\ DOMAIN result[p].body = {"kundliData", "dashaData"} )

\* -------------------------------------------------------- envelope claims
MessageKinds == {"config", "missingQuery", "auth", "transport", "syntax",
                 "type", "status", "detail", "unknown"}

\* C13: every invocation that returns does so with a statusCode in
\* {200, 400, 500} and a body that holds either the result fields kundliData
\* and dashaData or the single field error (an error message), never both
\* and never neither; the result fields appear exactly when the status is
\* 200.
C13_Envelope ==
    \A p \in Reqs :
        pc[p] = "done"
        => ( /\ result[p].statusCode \in {200, 400, 500}
             /\ \/ DOMAIN result[p].body = {"kundliData", "dashaData"}
                \/ /\ DOMAIN result[p].body = {"error"}
                   /\ result[p].body.error.kind \in MessageKinds
             /\ result[p].statusCode = 200
                <=> DOMAIN result[p].body = {"kundliData", "dashaData"} )

\* One invocation has returned 200 with the result fields, the other 500 with
\* an error field.
C13_Witness ==
    \E p, q \in Reqs :
        /\ pc[p] = "done" /\ pc[q] = "done"
        /\ result[p].statusCode = 200
        /\ DOMAIN result[p].body = {"kundliData", "dashaData"}
        /\ result[q].statusCode = 500
        /\ DOMAIN result[q].body = {"error"}

\* C14: when the client id or the client secret is missing from the
\* environment, every invocation returns at once with statusCode 500 and the
\* configuration-error body, whatever its query string; no token exchange
\* and no resource call is made and the token cache stays as it was (empty).
C14_MissingCredentials ==
    ( env.id = "" \/ env.secret = "" )
    => ( /\ \A p \in Reqs :
              /\ pc[p] \in {"idle", "done"}
              /\ pc[p] = "done"
                 => result[p] = [statusCode |-> 500,
                                 body |-> [error |-> [kind |-> "config", of |-> "",
                                                      names |-> "", text |-> ""]]]
              /\ tokenCalls[p] = 0
              /\ \A e \in Endpoints : fetchState[p][e] = "none" /\ url[p][e] = NoUrl
         /\ exchanges = 0
         /\ cachedToken = [accessToken |-> Null, expiresAt |-> 0] )

\* With the secret missing, a request with a complete query string has been
\* answered with the configuration error.
C14_Witness ==
    \E p \in Reqs :
        /\ env.id # "" /\ env.secret = ""
        /\ pc[p] = "done"
        /\ queryString[p] = GoodQuery
        /\ result[p] = ErrorResponse(500, ConfigMsg)

\* The step in which invocation p starts with no query string at all.
InvokedWithoutQuery(p) ==
    pc[p] = "idle" /\ pc'[p] # "idle" /\ queryString'[p] = <<>>

\* The invocation returns 400 with an error field in the same step, and the
\* step sends no token exchange and no resource call.
Rejects400(p) ==
    /\ pc'[p] = "done"
    /\ result'[p].statusCode = 400
    /\ DOMAIN result'[p].body = {"error"}
    /\ result'[p].body.error.kind = "missingQuery"
    /\ exchanges' = exchanges
    /\ tokenCalls'[p] = 0
    /\ \A e \in Endpoints : fetchState'[p][e] = "none" /\ url'[p][e] = NoUrl

\* C15 (as stated): a request with no query string at all yields statusCode
\* 400 and an error field, never 200 or 500, and causes no token exchange and
\* no resource call.
C15_NoQuery400 ==
    [][\A p \in Reqs : InvokedWithoutQuery(p) => Rejects400(p)]_vars

\* C15 (amended): when the client id and the client secret are configured, a
\* request with no query string at all yields statusCode 400 and an error
\* field, never 200 or 500, and causes no token exchange and no resource
\* call.  (Without them it yields the 500 of the configuration error.)
C15_NoQuery400IfConfigured ==
    [][\A p \in Reqs :
        /\ ( InvokedWithoutQuery(p) /\ env.id # "" /\ env.secret # "" )
           => Rejects400(p)
        /\ ( InvokedWithoutQuery(p) /\ (env.id = "" \/ env.secret = "") )
           => result'[p].statusCode = 500
    ]_vars

\* With credentials configured and a token in the cache, a request without a
\* query string has been answered 400.
C15_Witness ==
    \E p \in Reqs :
        /\ env.id # "" /\ env.secret # ""
        /\ cachedToken.accessToken # Null
        /\ pc[p] = "done"
        /\ queryString[p] = <<>>
        /\ result[p] = ErrorResponse(400, MissingQueryMsg)
        /\ \A e \in Endpoints : fetchState[p][e] = "none"

\* ----------------------------------------------------------- query claims
RequiredKeys == {"datetime", "coordinates", "ayanamsa"}
Keys(q) == { q[i].key : i \in DOMAIN q }
MissingKeys(q) == RequiredKeys \ Keys(q)

\* C16: for every inbound request whose query lacks any of datetime,
\* coordinates or ayanamsa (credentials being configured), the handler
\* returns 400 with a validation error naming a missing key, in the step in
\* which it is invoked: no token exchange and no resource call is issued for
\* the request.  Stated for the queries that hold at least one parameter; the
\* query string that is absent altogether is C15's case.
C16_MissingKeyRejected ==
    [][\A p \in Reqs :
        ( /\ pc[p] = "idle" /\ pc'[p] # "idle"
          /\ env.id # "" /\ env.secret # ""
          /\ queryString'[p] # <<>>
          /\ MissingKeys(queryString'[p]) # {} )
        => ( /\ pc'[p] = "done"
             /\ result'[p].statusCode = 400
             /\ result'[p].body.error.names \in MissingKeys(queryString'[p])
             /\ exchanges' = exchanges
             /\ \A e \in Endpoints : fetchState'[p][e] = "none" )
    ]_vars

\* The pieces of a raw query string that a URL decoder reads as one space.
IsSpace(piece) == piece \in {"+", "%20"}

\* The datetime value v with the separator between its time and its offset
\* replaced by the percent-encoded plus sign if it is a space, and nothing
\* else altered.
Repaired(v) == [i \in DOMAIN v |-> IF i = 2 /\ IsSpace(v[i]) THEN "%2B" ELSE v[i]]

\* C17: for every datetime value that reaches the handler with HH:MM:SS
\* followed by a single space and a two-digit:two-digit offset, the query
\* string of every GET sent to the provider carries that datetime with
\* exactly that space replaced by %2B and no other character altered.
C17_OffsetRepaired ==
    \A p \in Reqs : \A e \in Endpoints : \A i \in DOMAIN queryString[p] :
        ( /\ fetchState[p][e] # "none"
          /\ queryString[p][i].key = "datetime"
          /\ IsSpace(queryString[p][i].value[2]) )
        => \E j \in DOMAIN url[p][e] :
              /\ url[p][e][j].key = "datetime"
              /\ url[p][e][j].value = Repaired(queryString[p][i].value)

\* The keys of the query string q, in the order in which they are sent.
KeyOrder(q) == [i \in DOMAIN q |-> q[i].key]

\* C18: the query string forwarded to every resource endpoint holds exactly
\* the three parameters datetime, coordinates and ayanamsa, in that order;
\* any other parameter of the inbound query is dropped, and the three
\* endpoints receive the identical query string.  Stated for the inbound
\* queries that hold the three keys.
C18_CanonicalQuery ==
    \A p \in Reqs : \A e \in Endpoints :
        ( fetchState[p][e] # "none" /\ MissingKeys(queryString[p]) = {} )
        => ( /\ KeyOrder(url[p][e]) = <<"datetime", "coordinates", "ayanamsa">>
             /\ url[p][e] = url[p][1] )

\* --------------------------------------------------- token-failure claims
\* The step in which p's token acquisition fails: the exchange is rejected,
\* its body is not JSON, or its status is not a success.
TokenAcquisitionFails(p) ==
    pc[p] \in {"tokenFetch", "tokenJson"} /\ pc'[p] = "done"

\* The response body for each way the acquisition fails; none of them is
\* built from the client secret.
TokenFailureBody(kind) ==
    [error |-> [kind |-> kind, of |-> "token", names |-> "", text |-> ""]]

\* C19: when token acquisition fails, the handler returns 500 with an error
\* body that does not hold the client secret, and the body is determined by
\* the way the exchange failed alone: runs that differ only in the client
\* secret and fail the same way return the same body.
C19_SecretNotEchoed ==
    [][\A p \in Reqs :
        TokenAcquisitionFails(p)
        => ( /\ result'[p].statusCode = 500
             /\ result'[p].body.error.text # env.secret
             /\ pc[p] = "tokenFetch"
                => result'[p].body = TokenFailureBody("transport")
             /\ ( pc[p] = "tokenJson" /\ tokenResp[p].ok )
                => result'[p].body = TokenFailureBody("syntax")
             /\ ( pc[p] = "tokenJson" /\ ~tokenResp[p].ok )
                => result'[p].body \in { TokenFailureBody("auth"),
                                         TokenFailureBody("syntax") } )
    ]_vars

\* Under the second secret the exchange was refused and the handler has
\* returned the authentication error, the same body as under the first.
C19_Witness ==
    \E p \in Reqs :
        /\ env.secret = "s2"
        /\ pc[p] = "done"
        /\ result[p].statusCode = 500
        /\ result[p].body = TokenFailureBody("auth")

\* ------------------------------------------------------------ retry claims
Started == { p \in Reqs : pc[p] # "idle" }

\* C20: no automatic retry exists.  Within one invocation at most one token
\* exchange is sent, and only at the call of getAccessToken; at most one GET
\* is sent to each of the three endpoints (a call once issued is never
\* issued again, whatever its outcome); an invocation that has returned
\* sends nothing more.  Over all invocations, the exchanges sent never
\* outnumber the invocations started.
C20_NoRetry ==
    [][/\ \A p \in Reqs :
            /\ tokenCalls'[p] <= 1
            /\ tokenCalls'[p] > tokenCalls[p] => pc[p] = "idle"
            /\ \A e \in Endpoints :
                  /\ ( fetchState'[p][e] = "pending" /\ fetchState[p][e] # "pending" )
                     => ( fetchState[p][e] = "none" /\ pc[p] \in {"idle", "tokenJson"} )
                  /\ fetchState[p][e] # "none" => fetchState'[p][e] # "none"
            /\ pc[p] = "done"
               => ( pc'[p] = "done" /\ fetchState'[p] = fetchState[p]
                    /\ tokenCalls'[p] = tokenCalls[p] )
            /\ pc[p] \in {"tokenJson", "fanout", "process"}
               => pc'[p] # "tokenFetch"
       /\ exchanges' \in {exchanges, exchanges + 1}
       /\ exchanges' > exchanges
          => \E p \in Reqs : pc[p] = "idle" /\ pc'[p] = "tokenFetch"
       /\ exchanges' <= Cardinality(Started')
    ]_vars

\* An invocation whose Dasha call returned an HTTP error has returned 500:
\* one exchange was sent in all and the failed call was not issued again.
C20_Witness ==
    \E p \in Reqs :
        /\ pc[p] = "done"
        /\ result[p].statusCode = 500
        /\ fetchState[p] = <<"ok", "err", "ok">>
        /\ exchanges = 1
        /\ \A o \in Reqs \ {p} : pc[o] = "idle"

\* The step in which the handler returns the error of an exchange whose
\* status was not a success and whose body was JSON.
ExchangeRefused(p) ==
    /\ pc[p] = "tokenJson" /\ ~tokenResp[p].ok /\ pc'[p] = "done"
    /\ result'[p].body.error.kind = "auth"

FailureRead(p) == pc[p] = "done" /\ res[p] # NoRes

\* C22 (as stated): for an endpoint response with a failure status, the
\* error message is the upstream detail when the body is JSON that holds
\* one; when the body is JSON without a detail, a synthesized message that
\* includes the endpoint name and the raw HTTP status; when the body is not
\* JSON, a message that includes the raw response text verbatim.
C22_MessageForms ==
    \A p \in Reqs :
        FailureRead(p)
        => LET m == result[p].body.error
               t == res[p].text
           IN /\ result[p].statusCode = 500
              /\ t \in Details => ( m.kind = "detail" /\ m.text = t )
              /\ t \in {"{}", "null"}
                 => ( /\ m.names = EndpointName[FirstFailed(p)]
                      /\ "status" \in DOMAIN m
                      /\ m.status = res[p].status )
              /\ t = "raw" => m.text = "raw"

\* C22 (amended): the error message is the upstream detail when the body is
\* JSON that holds one; when the body is a JSON object without a detail, a
\* synthesized message that includes the endpoint name and not the HTTP
\* status; when the body is the JSON value null, the runtime's TypeError
\* message, which includes neither; when the body is not JSON, a message
\* that includes the endpoint name, the raw HTTP status and the raw response
\* text verbatim.
C22_MessageFormsOfCode ==
    \A p \in Reqs :
        FailureRead(p)
        => LET m == result[p].body.error
               t == res[p].text
               name == EndpointName[FirstFailed(p)]
           IN /\ result[p].statusCode = 500
              /\ m.of = name
              /\ t \in Details => ( m.kind = "detail" /\ m.text = t )
              /\ t = "{}"
                 => ( /\ m.kind = "unknown" /\ m.names = name
                      /\ "status" \notin DOMAIN m )
              /\ t = "null"
                 => ( /\ m.kind = "type" /\ m.names = ""
                      /\ "status" \notin DOMAIN m )
              /\ t = "raw"
                 => ( /\ m.kind = "status" /\ m.names = name
                      /\ m.status = res[p].status /\ m.text = "raw" )

\* Kundli answered 400 with a body that is not JSON; the 500 response names
\* Kundli, the status 400 and the raw text.
C22_Witness ==
    \E p \in Reqs :
        /\ FailureRead(p)
        /\ res[p] = [status |-> 400, text |-> "raw"]
        /\ result[p] = [statusCode |-> 500,
                        body |-> [error |-> [kind |-> "status", of |-> "Kundli",
                                             names |-> "Kundli", text |-> "raw",
                                             status |-> 400]]]

\* ---------------------------------------------------------- order claims
\* The step in which p issues its GET to endpoint e.
IssuesGet(p, e) == fetchState[p][e] # "pending" /\ fetchState'[p][e] = "pending"

\* C23: the handler is linear.  No resource GET is issued before
\* getAccessToken has returned a token in the same invocation (from the
\* cache at the call, or from the invocation's own successful exchange);
\* every GET of the invocation carries exactly that token; and when
\* getAccessToken fails, no GET is issued at all.
C23_Linear ==
    [][\A p \in Reqs :
        /\ \A e \in Endpoints :
              IssuesGet(p, e)
              => ( /\ accessToken'[p] # Null
                   /\ bearer'[p][e] = accessToken'[p]
                   /\ \/ /\ pc[p] = "idle"
                         /\ accessToken'[p] = cachedToken.accessToken
                      \/ /\ pc[p] = "tokenJson" /\ tokenResp[p].ok
                         /\ accessToken'[p] = tokenResp[p].access_token )
        /\ pc'[p] \in {"idle", "tokenFetch", "tokenJson"}
           => \A e \in Endpoints : fetchState'[p][e] = "none" /\ bearer'[p][e] = Null
        /\ pc'[p] \in {"fanout", "process"}
           => \A e \in Endpoints :
                 bearer'[p][e] = accessToken'[p] /\ accessToken'[p] # Null
        /\ TokenAcquisitionFails(p)
           => \A e \in Endpoints : fetchState'[p][e] = "none"
    ]_vars

\* One invocation is waiting for its three GETs, each carrying the token of
\* its own exchange; the other invocation, whose own exchange failed, has
\* returned 500 without any GET.
C23_Witness ==
    \E p, q \in Reqs :
        /\ pc[p] = "fanout"
        /\ tokenCalls[p] = 1
        /\ exchanges = 2
        /\ \A e \in Endpoints : bearer[p][e] = accessToken[p]
        /\ pc[q] = "done"
        /\ result[q].statusCode = 500
        /\ \A e \in Endpoints : fetchState[q][e] = "none"

\* ---------------------------------------------------------- cache claims
\* The step is one of invocation p.
StepOf(p) ==
    <<pc[p], fetchState[p], idx[p], payload[p], tokenResp[p]>>'
        # <<pc[p], fetchState[p], idx[p], payload[p], tokenResp[p]>>

\* C24: the token cache is changed only by the store step of a successful
\* exchange.  A cache hit, a 400 or configuration-error return, a failed
\* exchange, the fan-out, the reading of the responses, the merge and any
\* resource-endpoint failure (a 401 of a resource endpoint included) leave
\* the cached token and its expiry as they are, so that a request made
\* afterwards within the validity window is served the same token without an
\* exchange.
C24_CacheFrame ==
    [][/\ \A p \in Reqs :
            ( StepOf(p) /\ ~StoresToken(p) ) => cachedToken' = cachedToken
       /\ cachedToken' # cachedToken
          => \E p \in Reqs : StepOf(p) /\ StoresToken(p)
       /\ \A p, q \in Reqs :
            ( /\ pc[q] = "done"
              /\ result[q].statusCode = 500
              /\ res[q].status = 401
              /\ CallsGetAccessToken(p)
              /\ cachedToken.expiresAt > now + 300 * 1000 )
            => ( /\ cachedToken.accessToken # Null
                 /\ accessToken'[p] = cachedToken.accessToken
                 /\ exchanges' = exchanges )
    ]_vars

\* An invocation has returned 500 after a 401 of a resource endpoint; the
\* token it had stored is still cached and the other invocation has been
\* served it from the cache: one exchange in all.
C24_Witness ==
    \E p, q \in Reqs :
        /\ pc[q] = "done"
        /\ result[q].statusCode = 500
        /\ res[q].status = 401
        /\ pc[p] = "fanout"
        /\ tokenCalls[p] = 0
        /\ accessToken[p] = cachedToken.accessToken
        /\ exchanges = 1

\* The moments at which a store can have happened up to now.
StoreTimes == { k * TickMs : k \in 0..(now \div TickMs) }

\* C25: in every reachable state, under any interleaving of concurrent
\* refreshes, the cache is either in its initial empty state (no token,
\* expiresAt 0) or holds a token the provider issued with an expiry computed
\* from a declared lifetime at a moment of store; and every change of the
\* cache writes the token and the expiry of one and the same exchange
\* response, the responses in flight carrying different tokens: the token of
\* one exchange is never paired with the expiry of another.
C25_PairConsistent ==
    /\ [] ( \/ cachedToken = [accessToken |-> Null, expiresAt |-> 0]
            \/ /\ cachedToken.accessToken \in 1..issued
               /\ \E t \in StoreTimes, life \in Lifetimes :
                     cachedToken.expiresAt = t + life * 1000 )
    /\ [] ( \A p, q \in Reqs :
              ( p # q /\ tokenResp[p].ok /\ tokenResp[q].ok )
              => tokenResp[p].access_token # tokenResp[q].access_token )
    /\ [][ cachedToken' # cachedToken
           => \E p \in Reqs :
                 /\ pc[p] = "tokenJson" /\ tokenResp[p].ok
                 /\ cachedToken'.accessToken = tokenResp[p].access_token
                 /\ cachedToken'.expiresAt = now + tokenResp[p].expires_in * 1000
         ]_vars

\* Two refreshes ran concurrently and both stored, the later-issued token
\* last, after the clock had advanced; the cache holds that token.
C25_Witness ==
    \E p, q \in Reqs :
        /\ Acquired(p) /\ Acquired(q)
        /\ accessToken[p] < accessToken[q]
        /\ cachedToken.accessToken = accessToken[q]
        /\ now = TickMs
        /\ cachedToken.expiresAt = now + 600 * 1000

\* The cache entry c can be a token of declared lifetime at most 300 s
\* stored at or before time t.
ShortLived(c, t) ==
    /\ c.accessToken # Null
    /\ \E k \in 0..(t \div TickMs), life \in { l \in Lifetimes : l <= 300 } :
          c.expiresAt = k * TickMs + life * 1000

InFlight == {"tokenFetch", "tokenJson", "fanout", "process"}

\* C27: provided every upstream call it issues eventually settles, the
\* invocation eventually returns a response.  At every position where it
\* waits, the settlement of a call it has issued can occur; a step that ends
\* the invocation after the credential check ends it with the 200 result or,
\* for every exception, with a 500 response that has an error field; and a
\* returned invocation has a response.
C27_EventuallyReturns ==
    /\ [] ( pc[1] \in InFlight => ENABLED <<Settle>>_vars )
    /\ [] ( pc[1] = "done" => result[1].statusCode \in {200, 400, 500} )
    /\ [][ ( pc[1] \in InFlight /\ pc'[1] = "done" )
           => \/ result'[1].statusCode = 200
              \/ /\ result'[1].statusCode = 500
                 /\ DOMAIN result'[1].body = {"error"} ]_vars
    /\ ( ( pc[1] \in InFlight ) ~> ( pc[1] = "done" ) )

\* The invocation obtained all three responses, an exception was raised while
\* they were processed, and it returned 500.
C27_Witness ==
    /\ pc[1] = "done"
    /\ \A e \in Endpoints : fetchState[1][e] = "ok"
    /\ result[1].statusCode = 500
====
